---- MODULE Spec2Model ----
(***************************************************************************)
(* BookVerse platform tagging service (app/tagging_service.py) and the     *)
(* semver utilities of the aggregator (app/main.py).                       *)
(*                                                                         *)
(* Strings are sequences of one-character strings, so that startswith,     *)
(* split, int() and the regular expression of SemVer.parse are computed    *)
(* the way the code computes them.                                         *)
(***************************************************************************)
EXTENDS Integers, Sequences, FiniteSets, TLC

(***************************************************************************)
(* Text                                                                    *)
(***************************************************************************)

Digits == <<"0", "1", "2", "3", "4", "5", "6", "7", "8", "9">>

\* The characters used, in ASCII order.
Ascii ==
    <<"+", "-", ".">> \o Digits \o <<"Q">> \o
    <<"a", "b", "c", "d", "e", "f", "g", "h", "i", "j", "k", "l", "m",
      "n", "o", "p", "q", "r", "s", "t", "u", "v", "w", "x", "y", "z">>

Ord(c) == CHOOSE i \in 1..Len(Ascii) : Ascii[i] = c

IsDigit(c) == \E i \in 1..Len(Digits) : Digits[i] = c

DigitVal(c) == (CHOOSE i \in 1..Len(Digits) : Digits[i] = c) - 1

IsAlpha(c) == Ord(c) > Ord("9")

\* str.isdigit(): non-empty and every character a digit.
StrIsDigit(s) == Len(s) > 0 /\ \A i \in 1..Len(s) : IsDigit(s[i])

\* str.startswith(prefix)
StartsWith(s, prefix) ==
    Len(s) >= Len(prefix) /\ SubSeq(s, 1, Len(prefix)) = prefix

\* Index of the first occurrence of character c in s, 0 when there is none.
FindChar(s, c) ==
    IF \E i \in 1..Len(s) : s[i] = c
    THEN CHOOSE i \in 1..Len(s) : s[i] = c /\ \A j \in 1..(i - 1) : s[j] # c
    ELSE 0

\* str.split(sep) for a one-character separator.
RECURSIVE Split(_, _)
Split(s, sep) ==
    LET k == FindChar(s, sep)
    IN  IF k = 0 THEN <<s>>
        ELSE <<SubSeq(s, 1, k - 1)>> \o Split(SubSeq(s, k + 1, Len(s)), sep)

\* The value of a string of digits.
RECURSIVE DigitsVal(_)
DigitsVal(s) ==
    IF Len(s) = 0 THEN 0
    ELSE 10 * DigitsVal(SubSeq(s, 1, Len(s) - 1)) + DigitVal(s[Len(s)])

\* int(part) succeeds: an optional sign followed by digits.
IntOk(part) ==
    \/ StrIsDigit(part)
    \/ /\ Len(part) > 1
       /\ part[1] \in {"+", "-"}
       /\ StrIsDigit(Tail(part))

IntVal(part) ==
    IF StrIsDigit(part) THEN DigitsVal(part)
    ELSE IF part[1] = "-" THEN 0 - DigitsVal(Tail(part))
    ELSE DigitsVal(Tail(part))

\* Python's str < str: by code point, a proper prefix being smaller.
RECURSIVE StrLess(_, _)
StrLess(a, b) ==
    IF Len(b) = 0 THEN FALSE
    ELSE IF Len(a) = 0 THEN TRUE
    ELSE IF a[1] # b[1] THEN Ord(a[1]) < Ord(b[1])
    ELSE StrLess(Tail(a), Tail(b))

\* Python's tuple < tuple for tuples of integers.
RECURSIVE TupleLess(_, _)
TupleLess(a, b) ==
    IF Len(b) = 0 THEN FALSE
    ELSE IF Len(a) = 0 THEN TRUE
    ELSE IF a[1] # b[1] THEN a[1] < b[1]
    ELSE TupleLess(Tail(a), Tail(b))

(***************************************************************************)
(* Constants of the tagging service                                        *)
(***************************************************************************)

LATEST_TAG == <<"l", "a", "t", "e", "s", "t">>
QUARANTINE_TAG == <<"q", "u", "a", "r", "a", "n", "t", "i", "n", "e">>
BACKUP_BEFORE_LATEST == "original_tag_before_latest"
BACKUP_BEFORE_QUARANTINE == "original_tag_before_quarantine"
RELEASED == "RELEASED"
TRUSTED_RELEASE == "TRUSTED_RELEASE"

\* The literal "Quarantine" of pick_next_latest.
CapitalQuarantine == <<"Q", "u", "a", "r", "a", "n", "t", "i", "n", "e">>

\* The literal "version" of the restore step of enforce_latest_tag_invariants.
VersionLiteral == <<"v", "e", "r", "s", "i", "o", "n">>

\* f"quarantine-{target_version}"
QuarantineTagOf(target_version) == QUARANTINE_TAG \o <<"-">> \o target_version

(***************************************************************************)
(* tagging_service.sort_versions_by_semver_desc: the dotted-integer key    *)
(***************************************************************************)

semver_key(version) ==
    LET parts == Split(version, ".")
    IN  IF \A i \in 1..Len(parts) : IntOk(parts[i])
        THEN [i \in 1..Len(parts) |-> IntVal(parts[i])]
        ELSE <<0, 0, 0>>

\* Variant: the version strings are compared as text.
KeyLessAsText(a, b) == StrLess(a, b)

KeyLess(a, b) == TupleLess(semver_key(a), semver_key(b))

\* sorted(xs, key=semver_key, reverse=True) is stable: x goes after every
\* element whose key is greater than or equal to its own.
RECURSIVE InsertByKeyDesc(_, _)
InsertByKeyDesc(sorted, x) ==
    IF Len(sorted) = 0 THEN <<x>>
    ELSE IF KeyLess(sorted[1], x) THEN <<x>> \o sorted
    ELSE <<sorted[1]>> \o InsertByKeyDesc(Tail(sorted), x)

RECURSIVE sort_versions_by_semver_desc(_)
sort_versions_by_semver_desc(versions) ==
    IF Len(versions) = 0 THEN <<>>
    ELSE InsertByKeyDesc(
             sort_versions_by_semver_desc(SubSeq(versions, 1, Len(versions) - 1)),
             versions[Len(versions)])

(***************************************************************************)
(* main.SemVer.parse and main.compare_semver: SemVer 2.0 precedence        *)
(***************************************************************************)

\* 0|[1-9]\d*
IsNumericId(s) == StrIsDigit(s) /\ (Len(s) = 1 \/ s[1] # "0")

\* [0-9a-zA-Z-]
IsIdChar(c) == IsDigit(c) \/ IsAlpha(c) \/ c = "-"

\* 0|[1-9]\d*|[a-zA-Z-][0-9a-zA-Z-]*
IsPrereleaseId(s) ==
    \/ IsNumericId(s)
    \/ /\ Len(s) > 0
       /\ IsAlpha(s[1]) \/ s[1] = "-"
       /\ \A i \in 1..Len(s) : IsIdChar(s[i])

\* [0-9a-zA-Z-]+
IsBuildId(s) == Len(s) > 0 /\ \A i \in 1..Len(s) : IsIdChar(s[i])

\* The groups of SEMVER_RE: v? core (- prerelease)? (+ build)?
SemVerGroups(version) ==
    LET body == IF Len(version) > 0 /\ version[1] = "v" THEN Tail(version) ELSE version
        plus == FindChar(body, "+")
        main == IF plus = 0 THEN body ELSE SubSeq(body, 1, plus - 1)
        dash == FindChar(main, "-")
    IN  [core |-> IF dash = 0 THEN main ELSE SubSeq(main, 1, dash - 1),
         has_prerelease |-> dash # 0,
         prerelease |-> IF dash = 0 THEN <<>> ELSE SubSeq(main, dash + 1, Len(main)),
         has_build |-> plus # 0,
         build |-> IF plus = 0 THEN <<>> ELSE SubSeq(body, plus + 1, Len(body))]

\* SEMVER_RE.match(version) is not None
SemVerMatches(version) ==
    LET g == SemVerGroups(version)
        core == Split(g.core, ".")
        pre == Split(g.prerelease, ".")
        build == Split(g.build, ".")
    IN  /\ Len(core) = 3
        /\ \A i \in 1..3 : IsNumericId(core[i])
        /\ g.has_prerelease => \A i \in 1..Len(pre) : IsPrereleaseId(pre[i])
        /\ g.has_build => \A i \in 1..Len(build) : IsBuildId(build[i])

\* SemVer.parse(version), for a version that matches.
SemVerParse(version) ==
    LET g == SemVerGroups(version)
        core == Split(g.core, ".")
    IN  [major |-> DigitsVal(core[1]),
         minor |-> DigitsVal(core[2]),
         patch |-> DigitsVal(core[3]),
         prerelease |-> IF Len(g.prerelease) > 0 THEN Split(g.prerelease, ".") ELSE <<>>,
         original |-> version]

Min(x, y) == IF x < y THEN x ELSE y

\* The loop over zip(a.prerelease, b.prerelease) from position i, and what
\* follows it.
RECURSIVE ComparePrerelease(_, _, _)
ComparePrerelease(ap, bp, i) ==
    IF i > Min(Len(ap), Len(bp))
    THEN IF Len(ap) # Len(bp)
         THEN (IF Len(ap) < Len(bp) THEN -1 ELSE 1)
         ELSE 0
    ELSE LET at == ap[i]
             bt == bp[i]
             a_num == StrIsDigit(at)
             b_num == StrIsDigit(bt)
         IN  IF at = bt THEN ComparePrerelease(ap, bp, i + 1)
             ELSE IF a_num /\ b_num
                  THEN IF DigitsVal(at) # DigitsVal(bt)
                       THEN (IF DigitsVal(at) < DigitsVal(bt) THEN -1 ELSE 1)
                       ELSE ComparePrerelease(ap, bp, i + 1)
             ELSE IF a_num /\ ~b_num THEN -1
             ELSE IF ~a_num /\ b_num THEN 1
             ELSE IF StrLess(at, bt) THEN -1
             ELSE 1

\* Variant: only major, minor and patch are compared.
compare_semver_core_only(a, b) ==
    IF a.major # b.major THEN (IF a.major < b.major THEN -1 ELSE 1)
    ELSE IF a.minor # b.minor THEN (IF a.minor < b.minor THEN -1 ELSE 1)
    ELSE IF a.patch # b.patch THEN (IF a.patch < b.patch THEN -1 ELSE 1)
    ELSE 0

compare_semver(a, b) ==
    IF a.major # b.major THEN (IF a.major < b.major THEN -1 ELSE 1)
    ELSE IF a.minor # b.minor THEN (IF a.minor < b.minor THEN -1 ELSE 1)
    ELSE IF a.patch # b.patch THEN (IF a.patch < b.patch THEN -1 ELSE 1)
    ELSE IF Len(a.prerelease) = 0 /\ Len(b.prerelease) # 0 THEN 1
    ELSE IF Len(a.prerelease) # 0 /\ Len(b.prerelease) = 0 THEN -1
    ELSE ComparePrerelease(a.prerelease, b.prerelease, 1)

\* parsed.sort(key=cmp_to_key(compare_semver), reverse=True) is stable: x goes
\* after every element that compares greater than or equal to it.
RECURSIVE InsertBySemVerDesc(_, _)
InsertBySemVerDesc(sorted, x) ==
    IF Len(sorted) = 0 THEN <<x>>
    ELSE IF compare_semver(SemVerParse(sorted[1]), SemVerParse(x)) < 0
         THEN <<x>> \o sorted
    ELSE <<sorted[1]>> \o InsertBySemVerDesc(Tail(sorted), x)

\* main.sort_versions_by_semver_desc: strings that do not parse are dropped.
RECURSIVE main_sort_versions_by_semver_desc(_)
main_sort_versions_by_semver_desc(version_strings) ==
    IF Len(version_strings) = 0 THEN <<>>
    ELSE LET rest == main_sort_versions_by_semver_desc(
                         SubSeq(version_strings, 1, Len(version_strings) - 1))
             v == version_strings[Len(version_strings)]
         IN  IF SemVerMatches(v) THEN InsertBySemVerDesc(rest, v) ELSE rest

(***************************************************************************)
(* Version records and the registry behind AppTrustClient                  *)
(***************************************************************************)

\* Version strings in play.
V190 == <<"1", ".", "9", ".", "0">>
V200RC1 == <<"2", ".", "0", ".", "0", "-", "r", "c", ".", "1">>
V200 == <<"2", ".", "0", ".", "0">>

VersionStrings == {V190, V200RC1, V200}

AppKeys == {"bookverse-web"}

\* Two applications, for the runs in which invocations for different keys
\* interleave.
TwoAppKeys == {"bookverse-web", "bookverse-inventory"}

EmptyTag == <<>>

\* properties: a mapping from property key to a list of strings.
NoProperties == [k \in {} |-> <<>>]

OneProperty(key, values) == [k \in {key} |-> values]

\* str(...).upper() of the stage and status values the registry reports.
Upper(s) ==
    CASE s = "prod" -> "PROD"
      [] s = "released" -> "RELEASED"
      [] OTHER -> s

\* What one PATCH does to a version record: tag, properties and
\* delete_properties are each applied when present in the body.
PatchedRecord(r, call) ==
    LET set == call.properties
        keys == (DOMAIN r.properties \cup DOMAIN set) \ call.delete_properties
    IN  [r EXCEPT !.tag = call.tag,
                  !.properties = [k \in keys |-> IF k \in DOMAIN set
                                                 THEN set[k]
                                                 ELSE r.properties[k]]]

\* The version list of an application after a successful PATCH.
PatchedVersions(versions, call) ==
    [n \in 1..Len(versions) |->
        IF versions[n].version = call.version
        THEN PatchedRecord(versions[n], call)
        ELSE versions[n]]

\* Variant: the application key is left out of the URL, so the version of
\* that name is patched in every application.
PatchedRegistryAnyKey(reg, app_key, call) ==
    [a \in DOMAIN reg |-> PatchedVersions(reg[a], call)]

\* The registry after a successful PATCH of
\* /applications/{app_key}/versions/{version}.
PatchedRegistry(reg, app_key, call) ==
    [reg EXCEPT ![app_key] = PatchedVersions(@, call)]

\* The body patch_application_version sends; tag is always given by the
\* callers, properties and delete_properties are omitted when None.
PatchCall(version, tag, properties, delete_properties) ==
    [op |-> "patch", version |-> version, tag |-> tag,
     properties |-> properties, delete_properties |-> delete_properties]

ListCall == [op |-> "list"]

(***************************************************************************)
(* Pure helpers of the tagging service                                     *)
(***************************************************************************)

\* Subsequence of the elements of seq whose index is in keep.
RECURSIVE SelectIdx(_, _, _)
SelectIdx(seq, keep, n) ==
    IF n > Len(seq) THEN <<>>
    ELSE (IF n \in keep THEN <<seq[n]>> ELSE <<>>) \o SelectIdx(seq, keep, n + 1)

\* Variant: the release status is not looked at.
is_truly_in_prod_by_stage(version) == Upper(version.current_stage) = "PROD"

\* Variant: the stage is not looked at.
is_truly_in_prod_by_status(version) ==
    Upper(version.release_status) \in {RELEASED, TRUSTED_RELEASE}

is_truly_in_prod(version) ==
    /\ Upper(version.current_stage) = "PROD"
    /\ Upper(version.release_status) \in {RELEASED, TRUSTED_RELEASE}

\* Variant: every listed version is kept.
get_prod_versions_unfiltered(versions) == versions

get_prod_versions(versions) ==
    SelectIdx(versions, {n \in 1..Len(versions) : is_truly_in_prod(versions[n])}, 1)

\* First index of prod_versions whose record satisfies a test, 0 if none.
FirstIdx(S) == IF S = {} THEN 0 ELSE CHOOSE n \in S : \A m \in S : n <= m

IndexOfVersion(prod_versions, version) ==
    FirstIdx({n \in 1..Len(prod_versions) : prod_versions[n].version = version})

VersionsOnly(records) == [n \in 1..Len(records) |-> records[n].version]

\* Variant: no tag counts as a quarantine tag.
IsQuarantineTagNever(tag) == FALSE

\* tag.startswith("quarantine") of enforcement and of the recovery pass
IsQuarantineTag(tag) == StartsWith(tag, QUARANTINE_TAG)

\* The test that keeps a version out of the candidates of pick_next_latest.
SkippedByPick(tag) == StartsWith(tag, QUARANTINE_TAG) \/ StartsWith(tag, CapitalQuarantine)

\* Variant: quarantined versions stay among the candidates.
PickCandidatesWithQuarantined(prod_versions, exclude_version) ==
    SelectIdx(prod_versions,
              {n \in 1..Len(prod_versions) :
                  prod_versions[n].version # exclude_version},
              1)

PickCandidates(prod_versions, exclude_version) ==
    SelectIdx(prod_versions,
              {n \in 1..Len(prod_versions) :
                  /\ prod_versions[n].version # exclude_version
                  /\ ~SkippedByPick(prod_versions[n].tag)},
              1)

\* pick_next_latest: index in prod_versions of the chosen candidate, 0 for None.
pick_next_latest(prod_versions, exclude_version) ==
    LET candidates == PickCandidates(prod_versions, exclude_version)
    IN  IF Len(candidates) = 0 THEN 0
        ELSE IndexOfVersion(prod_versions,
                            sort_versions_by_semver_desc(VersionsOnly(candidates))[1])

\* Variant: no backup property is sent.
backup_tag_then_patch_without_backup(version, backup_prop_key, new_tag, current_tag) ==
    PatchCall(version, new_tag, NoProperties, {})

\* Variant: the current tag is stored even when it is empty.
backup_tag_then_patch_always(version, backup_prop_key, new_tag, current_tag) ==
    PatchCall(version, new_tag, OneProperty(backup_prop_key, <<current_tag>>), {})

\* backup_tag_then_patch: the PATCH it sends.
backup_tag_then_patch(version, backup_prop_key, new_tag, current_tag) ==
    PatchCall(version, new_tag,
              IF current_tag # EmptyTag
              THEN OneProperty(backup_prop_key, <<current_tag>>)
              ELSE NoProperties,
              {})

\* Variant: the backup property is not consulted.
ClearOriginalTagWithoutBackup(version) == version.version

\* The tag the recovery pass restores to a quarantined version.
ClearOriginalTag(version) ==
    IF /\ BACKUP_BEFORE_QUARANTINE \in DOMAIN version.properties
       /\ Len(version.properties[BACKUP_BEFORE_QUARANTINE]) > 0
    THEN version.properties[BACKUP_BEFORE_QUARANTINE][1]
    ELSE version.version

\* Next index >= n of the recovery loop that holds a quarantine tag, 0 if none.
NextQuarantined(prod_versions, n) ==
    FirstIdx({m \in n..Len(prod_versions) : IsQuarantineTag(prod_versions[m].tag)})

eligible_for_latest(prod_versions) ==
    SelectIdx(prod_versions,
              {n \in 1..Len(prod_versions) : ~IsQuarantineTag(prod_versions[n].tag)},
              1)

\* desired_latest, for a non-empty eligible list.
desired_latest(prod_versions) ==
    sort_versions_by_semver_desc(VersionsOnly(eligible_for_latest(prod_versions)))[1]

\* current_latest: index of the first version tagged latest, 0 for None.
current_latest(prod_versions) ==
    FirstIdx({n \in 1..Len(prod_versions) : prod_versions[n].tag = LATEST_TAG})

\* The tag the restore step gives the previous holder of latest.
RestoreOriginalTag(old) ==
    LET stored == IF /\ BACKUP_BEFORE_LATEST \in DOMAIN old.properties
                     /\ Len(old.properties[BACKUP_BEFORE_LATEST]) > 0
                  THEN old.properties[BACKUP_BEFORE_LATEST][1]
                  ELSE VersionLiteral
    IN  IF stored = EmptyTag \/ stored = LATEST_TAG THEN old.version ELSE stored

(***************************************************************************)
(* State                                                                   *)
(***************************************************************************)

\* Bounds of the model.
MaxVersions == 2
MaxSlots == 2
MaxRequests == 2
MaxSerialRequests == 4
MaxAnyRequests == 1
MaxExternal == 1
MaxRecoverRequests == 2
MaxSortLen == 3

Slots == 1..MaxSlots

VARIABLES
    registry,    \* app_key -> the version records the registry lists, in order
    configured,  \* APPTRUST_BASE_URL and APPTRUST_ACCESS_TOKEN are set
    tasks,       \* slot -> the request handled there and its background task
    last,        \* the task that ended last, while the registry is as it left it
    requests,    \* number of requests received
    externals,   \* number of changes made by the registry itself
    evaluated    \* the last call of a semver utility: its arguments and result

vars == <<registry, configured, tasks, last, requests, externals, evaluated>>

NoEvaluation == [func |-> "none", input |-> "none", args |-> <<>>, result |-> <<>>]

NoLast ==
    [slot |-> 0, func |-> "none", app_key |-> "", target_version |-> <<>>,
     versions |-> <<>>, ok |-> FALSE]

NoEvent == [app_key |-> "", version |-> <<>>, event_type |-> "", to_stage |-> "None"]

IdleTask ==
    [event |-> NoEvent, response |-> "", func |-> "none", app_key |-> "",
     target_version |-> <<>>, pc |-> "idle", versions |-> <<>>,
     prod_versions |-> <<>>, i |-> 0,
     calls |-> <<>>, follows |-> NoLast]

\* Positions at which a background task awaits a registry call.
AwaitingPcs == {"list", "clear", "assign", "restore", "quarantine", "promote"}

InProgress(t) == tasks[t].pc \in AwaitingPcs

NoneInProgress == \A t \in Slots : ~InProgress(t)

\* Requests are handled in the lowest slot that holds no running task.
FreeSlots == {t \in Slots : ~InProgress(t)}

NextSlot == CHOOSE t \in FreeSlots : \A u \in FreeSlots : t <= u

Patches(calls) == SelectIdx(calls, {n \in 1..Len(calls) : calls[n].call.op = "patch"}, 1)

(***************************************************************************)
(* Event receiver                                                          *)
(***************************************************************************)

EventsFor(keys) ==
    {[app_key |-> a, version |-> v, event_type |-> "rollback", to_stage |-> "None"] :
        a \in keys, v \in VersionStrings}
    \cup {[app_key |-> a, version |-> V190, event_type |-> "promoted", to_stage |-> s] :
        a \in keys, s \in {"PROD", "STAGING"}}
    \cup {[app_key |-> a, version |-> V190, event_type |-> "tagged", to_stage |-> "None"] :
        a \in keys}

Events == EventsFor(AppKeys)

\* Variant: the stage a version was promoted to is not looked at.
WebhookDispatchAnyStage(event) ==
    IF event.event_type = "promoted"
    THEN "enforce_latest_tag_invariants"
    ELSE IF event.event_type = "rollback"
    THEN "handle_rollback_tagging"
    ELSE "none"

\* The task a webhook event adds to background_tasks.
WebhookDispatch(event) ==
    IF event.event_type = "promoted" /\ event.to_stage = "PROD"
    THEN "enforce_latest_tag_invariants"
    ELSE IF event.event_type = "rollback"
    THEN "handle_rollback_tagging"
    ELSE "none"

Scheduled(event, func, response) ==
    [IdleTask EXCEPT !.event = event, !.response = response, !.func = func,
                     !.app_key = event.app_key,
                     !.target_version = IF func = "handle_rollback_tagging"
                                        THEN event.version ELSE <<>>,
                     !.pc = IF func = "none" THEN "done" ELSE "list"]

handle_apptrust_webhook(event) ==
    /\ FreeSlots # {}
    /\ tasks' = [tasks EXCEPT ![NextSlot] =
                    IF configured
                    THEN Scheduled(event, WebhookDispatch(event), "accepted")
                    ELSE Scheduled(event, "none", "error_500")]
    /\ requests' = requests + 1
    /\ UNCHANGED <<evaluated, registry, configured, last, externals>>

enforce_tagging_manually(app_key) ==
    LET event == [NoEvent EXCEPT !.app_key = app_key, !.event_type = "manual"]
    IN  /\ FreeSlots # {}
        /\ tasks' = [tasks EXCEPT ![NextSlot] =
                        IF configured
                        THEN Scheduled(event, "enforce_latest_tag_invariants",
                                       "enforcement_scheduled")
                        ELSE Scheduled(event, "none", "error_500")]
        /\ requests' = requests + 1
        /\ UNCHANGED <<evaluated, registry, configured, last, externals>>

(***************************************************************************)
(* Background tasks, one action per registry call                          *)
(***************************************************************************)

Logged(task, call, ok) == Append(task.calls, [call |-> call, ok |-> ok])

\* The record of a task that has completed.
Completion(t, task) ==
    [slot |-> t, func |-> task.func, app_key |-> task.app_key,
     target_version |-> task.target_version, versions |-> task.versions,
     ok |-> TRUE]

\* After a step of task t that leaves it at pc: the last completed task.
LastAfter(t, task, patched) ==
    IF task.pc = "done" THEN Completion(t, task)
    ELSE IF patched THEN NoLast
    ELSE last

\* Variant: the previous holder is restored first, and that ends the task.
EnforceAfterClearRestoresFirst(prod_versions) ==
    IF Len(eligible_for_latest(prod_versions)) = 0 THEN "done"
    ELSE LET cur == current_latest(prod_versions)
         IN  IF cur # 0 /\ prod_versions[cur].version = desired_latest(prod_versions)
             THEN "done"
             ELSE IF cur # 0 THEN "restore" ELSE "assign"

\* Where enforce_latest_tag_invariants goes once the recovery pass is over.
EnforceAfterClear(prod_versions) ==
    IF Len(eligible_for_latest(prod_versions)) = 0 THEN "done"
    ELSE LET cur == current_latest(prod_versions)
         IN  IF cur # 0 /\ prod_versions[cur].version = desired_latest(prod_versions)
             THEN "done"
             ELSE "assign"

\* get_prod_versions, then up to the first PATCH of the recovery pass.
EnforceList(t) ==
    LET task == tasks[t]
        prod_versions == get_prod_versions(registry[task.app_key])
        first == NextQuarantined(prod_versions, 1)
        after == [task EXCEPT
                    !.versions = registry[task.app_key],
                    !.prod_versions = prod_versions,
                    !.calls = Logged(task, ListCall, TRUE),
                    !.follows = last,
                    !.i = first,
                    !.pc = IF Len(prod_versions) = 0 THEN "done"
                           ELSE IF first # 0 THEN "clear"
                           ELSE EnforceAfterClear(prod_versions)]
    IN  /\ task.func = "enforce_latest_tag_invariants"
        /\ task.pc = "list"
        /\ tasks' = [tasks EXCEPT ![t] = after]
        /\ last' = LastAfter(t, after, FALSE)
        /\ UNCHANGED <<evaluated, registry, configured, requests, externals>>

\* The PATCH of clear_quarantine_tags_for_re_released_versions for the
\* version at position i of the snapshot.
ClearCall(version) ==
    PatchCall(version.version, ClearOriginalTag(version), NoProperties,
              {BACKUP_BEFORE_QUARANTINE})

\* One iteration of the recovery pass: PATCH, then version["tag"] = original_tag.
EnforceClear(t) ==
    LET task == tasks[t]
        call == ClearCall(task.prod_versions[task.i])
        prod_versions == [task.prod_versions EXCEPT ![task.i].tag = call.tag]
        next == NextQuarantined(task.prod_versions, task.i + 1)
        after == [task EXCEPT
                    !.prod_versions = prod_versions,
                    !.calls = Logged(task, call, TRUE),
                    !.i = next,
                    !.pc = IF next # 0 THEN "clear"
                           ELSE EnforceAfterClear(prod_versions)]
    IN  /\ task.pc = "clear"
        /\ registry' = PatchedRegistry(registry, task.app_key, call)
        /\ tasks' = [tasks EXCEPT ![t] = after]
        /\ last' = LastAfter(t, after, TRUE)
        /\ UNCHANGED <<evaluated, configured, requests, externals>>

\* The PATCH that gives the desired version the latest tag.
AssignCall(prod_versions) ==
    LET desired == desired_latest(prod_versions)
        desired_version_obj == prod_versions[IndexOfVersion(prod_versions, desired)]
    IN  backup_tag_then_patch(desired, BACKUP_BEFORE_LATEST, LATEST_TAG,
                              desired_version_obj.tag)

EnforceAssign(t) ==
    LET task == tasks[t]
        call == AssignCall(task.prod_versions)
        cur == current_latest(task.prod_versions)
        after == [task EXCEPT
                    !.calls = Logged(task, call, TRUE),
                    !.pc = IF cur # 0 /\ task.prod_versions[cur].version # call.version
                           THEN "restore" ELSE "done"]
    IN  /\ task.pc = "assign"
        /\ registry' = PatchedRegistry(registry, task.app_key, call)
        /\ tasks' = [tasks EXCEPT ![t] = after]
        /\ last' = LastAfter(t, after, TRUE)
        /\ UNCHANGED <<evaluated, configured, requests, externals>>

\* The PATCH that restores the previous holder of latest.
RestoreCall(prod_versions) ==
    LET old == prod_versions[current_latest(prod_versions)]
    IN  PatchCall(old.version, RestoreOriginalTag(old), NoProperties,
                  {BACKUP_BEFORE_LATEST})

EnforceRestore(t) ==
    LET task == tasks[t]
        call == RestoreCall(task.prod_versions)
        after == [task EXCEPT !.calls = Logged(task, call, TRUE), !.pc = "done"]
    IN  /\ task.pc = "restore"
        /\ registry' = PatchedRegistry(registry, task.app_key, call)
        /\ tasks' = [tasks EXCEPT ![t] = after]
        /\ last' = LastAfter(t, after, TRUE)
        /\ UNCHANGED <<evaluated, configured, requests, externals>>

\* get_prod_versions and the search for the target version.
RollbackList(t) ==
    LET task == tasks[t]
        prod_versions == get_prod_versions(registry[task.app_key])
        after == [task EXCEPT
                    !.versions = registry[task.app_key],
                    !.prod_versions = prod_versions,
                    !.calls = Logged(task, ListCall, TRUE),
                    !.follows = last,
                    !.i = IndexOfVersion(prod_versions, task.target_version),
                    !.pc = IF IndexOfVersion(prod_versions, task.target_version) = 0
                           THEN "done" ELSE "quarantine"]
    IN  /\ task.func = "handle_rollback_tagging"
        /\ task.pc = "list"
        /\ tasks' = [tasks EXCEPT ![t] = after]
        /\ last' = LastAfter(t, after, FALSE)
        /\ UNCHANGED <<evaluated, registry, configured, requests, externals>>

\* Variant: every rollback re-elects.
had_latest_always(target_version_obj) == TRUE

\* had_latest of handle_rollback_tagging
had_latest(target_version_obj) == target_version_obj.tag = LATEST_TAG

\* Step 1: the quarantine tag with backup.
QuarantineCall(target_version_obj) ==
    backup_tag_then_patch(target_version_obj.version, BACKUP_BEFORE_QUARANTINE,
                          QuarantineTagOf(target_version_obj.version),
                          target_version_obj.tag)

RollbackQuarantine(t) ==
    LET task == tasks[t]
        target_version_obj == task.prod_versions[task.i]
        call == QuarantineCall(target_version_obj)
        after == [task EXCEPT
                    !.calls = Logged(task, call, TRUE),
                    !.pc = IF /\ had_latest(target_version_obj)
                              /\ pick_next_latest(task.prod_versions,
                                                  task.target_version) # 0
                           THEN "promote" ELSE "done"]
    IN  /\ task.pc = "quarantine"
        /\ registry' = PatchedRegistry(registry, task.app_key, call)
        /\ tasks' = [tasks EXCEPT ![t] = after]
        /\ last' = LastAfter(t, after, TRUE)
        /\ UNCHANGED <<evaluated, configured, requests, externals>>

\* Step 2: the successor gets the latest tag.
PromoteCall(prod_versions, target_version) ==
    LET next_candidate == prod_versions[pick_next_latest(prod_versions, target_version)]
    IN  backup_tag_then_patch(next_candidate.version, BACKUP_BEFORE_LATEST,
                              LATEST_TAG, next_candidate.tag)

RollbackPromote(t) ==
    LET task == tasks[t]
        call == PromoteCall(task.prod_versions, task.target_version)
        after == [task EXCEPT !.calls = Logged(task, call, TRUE), !.pc = "done"]
    IN  /\ task.pc = "promote"
        /\ registry' = PatchedRegistry(registry, task.app_key, call)
        /\ tasks' = [tasks EXCEPT ![t] = after]
        /\ last' = LastAfter(t, after, TRUE)
        /\ UNCHANGED <<evaluated, configured, requests, externals>>

\* The registry call the task is waiting for.
PendingCall(task) ==
    CASE task.pc = "list" -> ListCall
      [] task.pc = "clear" -> ClearCall(task.prod_versions[task.i])
      [] task.pc = "assign" -> AssignCall(task.prod_versions)
      [] task.pc = "restore" -> RestoreCall(task.prod_versions)
      [] task.pc = "quarantine" -> QuarantineCall(task.prod_versions[task.i])
      [] task.pc = "promote" -> PromoteCall(task.prod_versions, task.target_version)

\* Variant: the task stays where it is and makes the call again.
AfterFailureRetry(task) == task.pc

\* Where a task is after raise_for_status() has raised: nothing in the task
\* catches the exception.
AfterFailure(task) == "failed"

\* raise_for_status(): the call fails, the exception ends the background task.
CallFails(t) ==
    LET task == tasks[t]
    IN  /\ InProgress(t)
        /\ tasks' = [tasks EXCEPT ![t] =
                        [task EXCEPT !.calls = Logged(task, PendingCall(task), FALSE),
                                     !.pc = AfterFailure(task)]]
        /\ last' = [Completion(t, task) EXCEPT !.ok = FALSE]
        /\ UNCHANGED <<evaluated, registry, configured, requests, externals>>

(***************************************************************************)
(* The registry's own changes                                              *)
(***************************************************************************)

\* A version is promoted or re-released into PROD.
ExternalRelease(app_key, n) ==
    /\ externals < MaxExternal
    /\ ~is_truly_in_prod(registry[app_key][n])
    /\ registry' = [registry EXCEPT ![app_key][n].current_stage = "PROD",
                                    ![app_key][n].release_status = RELEASED]
    /\ externals' = externals + 1
    /\ last' = NoLast
    /\ UNCHANGED <<evaluated, configured, tasks, requests>>

\* A version is withdrawn from PROD.
ExternalWithdraw(app_key, n) ==
    /\ externals < MaxExternal
    /\ is_truly_in_prod(registry[app_key][n])
    /\ registry' = [registry EXCEPT ![app_key][n].current_stage = "STAGING"]
    /\ externals' = externals + 1
    /\ last' = NoLast
    /\ UNCHANGED <<evaluated, configured, tasks, requests>>

(***************************************************************************)
(* Initial states                                                          *)
(***************************************************************************)

Record(v, stage, status, tag, properties) ==
    [version |-> v, current_stage |-> stage, release_status |-> status,
     tag |-> tag, properties |-> properties]

\* Lists of at most n records of distinct versions, in every order.
ListsOf(records, n) ==
    UNION {{l \in [1..k -> records] :
              \A a, b \in 1..k : a # b => l[a].version # l[b].version} : k \in 1..n}

\* Truly in prod, as the data model defines it.
TrulyInProd(r) ==
    r.current_stage = "PROD" /\ r.release_status \in {"RELEASED", "TRUSTED_RELEASE"}

\* Quarantined, as the data model defines it.
Quarantined(r) == StartsWith(r.tag, <<"q", "u", "a", "r", "a", "n", "t", "i", "n", "e">>)

\* The positions of the versions that are truly in prod and not quarantined.
Eligible(versions) ==
    {n \in 1..Len(versions) : TrulyInProd(versions[n]) /\ ~Quarantined(versions[n])}

\* v is a maximum of the set of version strings under SemVer precedence.
IsSemverMaximum(v, strings) ==
    /\ v \in strings
    /\ SemVerMatches(v)
    /\ \A w \in strings : SemVerMatches(w) =>
          compare_semver(SemVerParse(v), SemVerParse(w)) >= 0

LatestHolders(versions) ==
    {n \in 1..Len(versions) :
        TrulyInProd(versions[n]) /\ versions[n].tag = <<"l", "a", "t", "e", "s", "t">>}

\* The invariant of the data model.
InvariantHolds(versions) ==
    LET holders == LatestHolders(versions)
    IN  /\ Cardinality(holders) <= 1
        /\ Eligible(versions) # {} =>
              \E n \in holders :
                  IsSemverMaximum(versions[n].version,
                                  {versions[m].version : m \in Eligible(versions)})

\* Registries that satisfy the invariant and hold no backup property.
CleanRecords ==
    {Record(v, st[1], st[2], tag, NoProperties) :
        v \in VersionStrings,
        st \in {<<"PROD", RELEASED>>, <<"STAGING", RELEASED>>},
        tag \in {EmptyTag, LATEST_TAG}}
    \cup {Record(v, st[1], st[2], v, NoProperties) :
        v \in VersionStrings,
        st \in {<<"PROD", RELEASED>>, <<"STAGING", RELEASED>>}}

CleanLists(n) ==
    {l \in ListsOf(CleanRecords, n) :
        /\ InvariantHolds(l)
        /\ \A k \in 1..Len(l) : l[k].tag = LATEST_TAG => TrulyInProd(l[k])}

\* Any record: every stage and status the filter tells apart, every kind of
\* tag, and backup properties present, absent and stale.
StagePairs ==
    {<<"PROD", RELEASED>>, <<"PROD", TRUSTED_RELEASE>>,
     <<"STAGING", RELEASED>>, <<"PROD", "STAGED">>}

AnyProperties(v) ==
    {NoProperties,
     OneProperty(BACKUP_BEFORE_LATEST, <<v>>),
     OneProperty(BACKUP_BEFORE_QUARANTINE, <<v>>),
     OneProperty(BACKUP_BEFORE_QUARANTINE, <<LATEST_TAG>>),
     OneProperty(BACKUP_BEFORE_QUARANTINE, <<>>)}

AnyRecords ==
    UNION {{Record(v, st[1], st[2], tag, props) :
              st \in StagePairs,
              tag \in {EmptyTag, LATEST_TAG, v, QuarantineTagOf(v)},
              props \in AnyProperties(v)} : v \in VersionStrings}

InitWith(lists) ==
    /\ registry \in [AppKeys -> lists]
    /\ configured \in BOOLEAN
    /\ tasks = [t \in Slots |-> IdleTask]
    /\ last = NoLast
    /\ requests = 0
    /\ externals = 0
    /\ evaluated = NoEvaluation

Init == InitWith(CleanLists(MaxVersions))

InitSerial == InitWith(CleanLists(MaxVersions + 1))

InitAny == InitWith(ListsOf(AnyRecords, MaxVersions))

(***************************************************************************)
(* Specifications                                                          *)
(***************************************************************************)

Positions(app_key) == 1..Len(registry[app_key])

\* Requests are handled as they arrive, background tasks interleave at their
\* registry calls, any call may fail, and the registry changes on its own.
Next ==
    \/ requests < MaxRequests /\ \E event \in Events : handle_apptrust_webhook(event)
    \/ requests < MaxRequests /\ \E a \in AppKeys : enforce_tagging_manually(a)
    \/ \E t \in Slots : EnforceList(t)
    \/ \E t \in Slots : EnforceClear(t)
    \/ \E t \in Slots : EnforceAssign(t)
    \/ \E t \in Slots : EnforceRestore(t)
    \/ \E t \in Slots : RollbackList(t)
    \/ \E t \in Slots : RollbackQuarantine(t)
    \/ \E t \in Slots : RollbackPromote(t)
    \/ \E t \in Slots : CallFails(t)
    \/ \E a \in AppKeys : \E n \in Positions(a) : ExternalRelease(a, n)
    \/ \E a \in AppKeys : \E n \in Positions(a) : ExternalWithdraw(a, n)

Spec == Init /\ [][Next]_vars

\* The steps of the task that is running.
TaskStep ==
    \E t \in Slots :
        \/ EnforceList(t)
        \/ EnforceClear(t)
        \/ EnforceAssign(t)
        \/ EnforceRestore(t)
        \/ RollbackList(t)
        \/ RollbackQuarantine(t)
        \/ RollbackPromote(t)

\* Serialized, failure-free execution: a request arrives, and the registry
\* changes, only while no task is running.
NextSerial ==
    \/ /\ NoneInProgress
       /\ requests < MaxSerialRequests
       /\ \E event \in Events : handle_apptrust_webhook(event)
    \/ TaskStep
    \/ /\ NoneInProgress
       /\ \E a \in AppKeys : \E n \in Positions(a) : ExternalRelease(a, n)
    \/ /\ NoneInProgress
       /\ \E a \in AppKeys : \E n \in Positions(a) : ExternalWithdraw(a, n)

SpecSerial == InitSerial /\ [][NextSerial]_vars

\* One invocation that runs alone without failure, from any registry state.
NextAny ==
    \/ /\ NoneInProgress
       /\ requests < MaxAnyRequests
       /\ \E event \in Events : handle_apptrust_webhook(event)
    \/ /\ NoneInProgress
       /\ requests < MaxAnyRequests
       /\ \E a \in AppKeys : enforce_tagging_manually(a)
    \/ TaskStep

SpecAny == InitAny /\ [][NextAny]_vars

\* Serialized execution in which the registry call a task awaits may fail.
NextRecover ==
    \/ /\ NoneInProgress
       /\ requests < MaxRecoverRequests
       /\ \E event \in Events : handle_apptrust_webhook(event)
    \/ TaskStep
    \/ \E t \in Slots : CallFails(t)
    \/ /\ NoneInProgress
       /\ \E a \in AppKeys : \E n \in Positions(a) : ExternalRelease(a, n)
    \/ /\ NoneInProgress
       /\ \E a \in AppKeys : \E n \in Positions(a) : ExternalWithdraw(a, n)

SpecRecover == InitSerial /\ [][NextRecover]_vars

\* Two applications; the background tasks of requests for different keys
\* interleave at their registry calls.
KeyRecords ==
    UNION {{Record(v, "PROD", RELEASED, EmptyTag, NoProperties),
            Record(v, "PROD", RELEASED, LATEST_TAG, NoProperties),
            Record(v, "PROD", RELEASED, QuarantineTagOf(v),
                   OneProperty(BACKUP_BEFORE_QUARANTINE, <<v>>))} : v \in {V190, V200}}

InitKeys ==
    /\ registry \in [TwoAppKeys -> ListsOf(KeyRecords, MaxVersions)]
    /\ configured = TRUE
    /\ tasks = [t \in Slots |-> IdleTask]
    /\ last = NoLast
    /\ requests = 0
    /\ externals = 0
    /\ evaluated = NoEvaluation

NextKeys ==
    \/ /\ requests < MaxRequests
       /\ \E event \in EventsFor(TwoAppKeys) :
             /\ \A t \in Slots : tasks[t].app_key # event.app_key
             /\ handle_apptrust_webhook(event)
    \/ TaskStep

SpecKeys == InitKeys /\ [][NextKeys]_vars

(***************************************************************************)
(* The semver utilities on their own: the input is drawn first, and one    *)
(* call of one utility is applied to it.                                   *)
(***************************************************************************)

V129 == <<"1", ".", "2", ".", "9">>
V1210 == <<"1", ".", "2", ".", "1", "0">>
V130 == <<"1", ".", "3", ".", "0">>
V200RC == <<"2", ".", "0", ".", "0", "-", "r", "c">>
V200RC2 == <<"2", ".", "0", ".", "0", "-", "r", "c", ".", "2">>
V200RC10 == <<"2", ".", "0", ".", "0", "-", "r", "c", ".", "1", "0">>
V200Alpha == <<"2", ".", "0", ".", "0", "-", "a", "l", "p", "h", "a">>
V200Pre7 == <<"2", ".", "0", ".", "0", "-", "7">>
V200Build == <<"2", ".", "0", ".", "0", "+", "b">>
\* Not semver: two components only, and no number at all.
V19 == <<"1", ".", "9">>
VNext == <<"n", "e", "x", "t">>

PlainStrings == {V129, V1210, V130, V190, V200}

SortStrings == PlainStrings \cup {V200RC1, V19, VNext}

CompareStrings ==
    {V129, V1210, V190, V200, V200RC, V200RC1, V200RC2, V200RC10, V200Alpha,
     V200Pre7, V200Build}

SortInputs == UNION {[1..k -> SortStrings] : k \in 0..MaxSortLen}

CompareInputs == [1..3 -> CompareStrings]

\* "Quarantine-<v>", a tag only pick_next_latest takes for a quarantine tag.
CapitalQuarantineTagOf(v) == CapitalQuarantine \o <<"-">> \o v

\* Production versions next to 2.0.0, with every kind of tag.
ElectionRecords ==
    UNION {{Record(v, "PROD", RELEASED, tag, NoProperties) :
              tag \in {EmptyTag, v, QuarantineTagOf(v), CapitalQuarantineTagOf(v)}} :
           v \in {V129, V1210, V190}}

\* Snapshots in which 2.0.0 holds latest, followed by other versions.
ElectionInputs ==
    {<<Record(V200, "PROD", RELEASED, LATEST_TAG, NoProperties)>> \o others :
        others \in ListsOf(ElectionRecords, MaxSortLen - 1)}

\* The versions of the list as released production versions without tags.
Released(version_strings) ==
    [n \in 1..Len(version_strings) |->
        Record(version_strings[n], "PROD", RELEASED, EmptyTag, NoProperties)]

Evaluates(func, result) ==
    /\ evaluated.func = "none"
    /\ evaluated' = [evaluated EXCEPT !.func = func, !.result = result]
    /\ UNCHANGED <<registry, configured, tasks, last, requests, externals>>

EvalTaggingSort ==
    /\ evaluated.input = "list"
    /\ Evaluates("tagging_service.sort_versions_by_semver_desc",
                 sort_versions_by_semver_desc(evaluated.args))

EvalMainSort ==
    /\ evaluated.input = "list"
    /\ Evaluates("main.sort_versions_by_semver_desc",
                 main_sort_versions_by_semver_desc(evaluated.args))

\* The election of enforce_latest_tag_invariants among the listed versions.
EvalDesiredLatest ==
    /\ evaluated.input = "list"
    /\ Len(evaluated.args) > 0
    /\ Evaluates("desired_latest", <<desired_latest(Released(evaluated.args))>>)

\* The election of handle_rollback_tagging when the first version is rolled back.
EvalPickNextLatest ==
    /\ evaluated.input = "list"
    /\ Len(evaluated.args) > 0
    /\ LET prod_versions == Released(evaluated.args)
           next_latest == pick_next_latest(prod_versions, evaluated.args[1])
       IN  /\ next_latest # 0
           /\ Evaluates("pick_next_latest", <<prod_versions[next_latest].version>>)

\* The re-election of handle_rollback_tagging when the holder of latest, the
\* first version of the snapshot, is rolled back: the successor, if any.
EvalReelection ==
    /\ evaluated.input = "snapshot"
    /\ LET prod_versions == evaluated.args
           target_version_obj == prod_versions[1]
           next_latest == pick_next_latest(prod_versions, target_version_obj.version)
       IN  /\ had_latest(target_version_obj)
           /\ Evaluates("handle_rollback_tagging",
                        IF next_latest = 0 THEN <<>>
                        ELSE <<prod_versions[next_latest].version>>)

EvalCompare ==
    /\ evaluated.input = "triple"
    /\ Evaluates("compare_semver",
                 <<compare_semver(SemVerParse(evaluated.args[1]),
                                  SemVerParse(evaluated.args[2]))>>)

InitPure ==
    /\ registry = [app_key \in AppKeys |-> <<>>]
    /\ configured = TRUE
    /\ tasks = [t \in Slots |-> IdleTask]
    /\ last = NoLast
    /\ requests = 0
    /\ externals = 0
    /\ \/ \E args \in SortInputs :
             evaluated = [NoEvaluation EXCEPT !.input = "list", !.args = args]
       \/ \E args \in CompareInputs :
             evaluated = [NoEvaluation EXCEPT !.input = "triple", !.args = args]
       \/ \E args \in ElectionInputs :
             evaluated = [NoEvaluation EXCEPT !.input = "snapshot", !.args = args]

NextPure ==
    \/ EvalTaggingSort
    \/ EvalMainSort
    \/ EvalDesiredLatest
    \/ EvalPickNextLatest
    \/ EvalReelection
    \/ EvalCompare

SpecPure == InitPure /\ [][NextPure]_vars

(***************************************************************************)
(* Properties                                                              *)
(***************************************************************************)

EnforceTask(t) == tasks[t].func = "enforce_latest_tag_invariants"

RollbackTask(t) == tasks[t].func = "handle_rollback_tagging"

\* Task t has completed and the registry is as it left it.
Settled(t) == tasks[t].pc = "done" /\ last.slot = t

\* The eligible set of an enforcement, taken after its recovery pass.
ElectionSet(task) ==
    {task.prod_versions[n].version :
        n \in {m \in 1..Len(task.prod_versions) : ~Quarantined(task.prod_versions[m])}}

PatchCount(task) == Len(Patches(task.calls))

\* C1: after an enforcement that ran alone without failure on a registry
\* whose eligible set is not empty, exactly one truly-in-prod version is
\* tagged latest and it is the semver-maximum of the eligible set.
C1_EnforceEstablishesInvariant ==
    \A t \in Slots :
        (EnforceTask(t) /\ Settled(t) /\ ElectionSet(tasks[t]) # {}) =>
            LET versions == registry[tasks[t].app_key]
                holders == LatestHolders(versions)
            IN  /\ Cardinality(holders) = 1
                /\ \A n \in holders :
                      IsSemverMaximum(versions[n].version, ElectionSet(tasks[t]))

\* C2: an enforcement that follows a completed enforcement of the same
\* application, with no registry change in between, issues no patch.
C2_SecondEnforceIssuesNoPatch ==
    \A t \in Slots :
        (/\ EnforceTask(t)
         /\ tasks[t].pc = "done"
         /\ tasks[t].follows.func = "enforce_latest_tag_invariants"
         /\ tasks[t].follows.app_key = tasks[t].app_key) =>
            PatchCount(tasks[t]) = 0

\* C3: from a registry that satisfies the invariant and holds no backup,
\* under serialized failure-free execution, after every completed
\* enforcement at most one truly-in-prod version is tagged latest.
C3_AtMostOneLatestAfterEnforce ==
    \A t \in Slots :
        (EnforceTask(t) /\ Settled(t)) =>
            Cardinality(LatestHolders(registry[tasks[t].app_key])) <= 1

\* C4: the version an enforcement elects as desired latest is the maximum
\* of its eligible set under SemVer 2.0 precedence.
C4_DesiredIsSemverMaximum ==
    \A t \in Slots :
        (/\ EnforceTask(t)
         /\ tasks[t].pc \in {"assign", "restore", "done"}
         /\ ElectionSet(tasks[t]) # {}) =>
            IsSemverMaximum(desired_latest(tasks[t].prod_versions),
                            ElectionSet(tasks[t]))

\* Task t has read the version list and has a patch left to issue.
MidFlight(t) == tasks[t].pc \in AwaitingPcs \ {"list"}

\* C5: no two invocations for the same application key are in progress at
\* the same time.
C5_PerKeyMutualExclusion ==
    \A t, u \in Slots :
        (t # u /\ tasks[t].app_key = tasks[u].app_key) =>
            ~(MidFlight(t) /\ MidFlight(u))

\* The record of version v in a version list.
RecordOf(versions, v) ==
    versions[CHOOSE n \in 1..Len(versions) : versions[n].version = v]

\* The target of a rollback is truly in prod in the snapshot it read.
TargetInProd(task) ==
    \E n \in 1..Len(task.versions) :
        /\ task.versions[n].version = task.target_version
        /\ TrulyInProd(task.versions[n])

\* The eligible versions of the snapshot other than the target.
Remaining(task) ==
    {task.versions[n].version :
        n \in {m \in Eligible(task.versions) :
                  task.versions[m].version # task.target_version}}

\* C6: a rollback of the latest holder that runs alone from a registry that
\* satisfies the invariant, with another eligible version present, leaves
\* the target tagged quarantine-<target>, the semver-maximum of the remaining
\* eligible versions tagged latest with its previous tag in its
\* backup-before-latest property, and no other version tagged latest.
C6_RollbackReelectsSemverMaximum ==
    \A t \in Slots :
        (/\ RollbackTask(t)
         /\ Settled(t)
         /\ TargetInProd(tasks[t])
         /\ InvariantHolds(tasks[t].versions)
         /\ RecordOf(tasks[t].versions, tasks[t].target_version).tag = LATEST_TAG
         /\ Remaining(tasks[t]) # {}) =>
            LET task == tasks[t]
                versions == registry[task.app_key]
            IN  /\ \A n \in 1..Len(versions) :
                      versions[n].version = task.target_version =>
                          versions[n].tag = QuarantineTagOf(task.target_version)
                /\ \E n \in 1..Len(versions) :
                      /\ IsSemverMaximum(versions[n].version, Remaining(task))
                      /\ versions[n].tag = LATEST_TAG
                      /\ BACKUP_BEFORE_LATEST \in DOMAIN versions[n].properties
                      /\ versions[n].properties[BACKUP_BEFORE_LATEST]
                            = <<RecordOf(task.versions, versions[n].version).tag>>
                      /\ \A m \in 1..Len(versions) :
                            m # n => versions[m].tag # LATEST_TAG

\* A rollback task that has read a snapshot in which its target is truly
\* in prod.
RollbackOf(t) ==
    /\ RollbackTask(t)
    /\ tasks[t].pc \in {"quarantine", "promote", "done"}
    /\ TargetInProd(tasks[t])

\* Every version other than v is as it was in the snapshot.
OthersUnchanged(task, v) ==
    LET versions == registry[task.app_key]
    IN  /\ Len(versions) = Len(task.versions)
        /\ \A n \in 1..Len(versions) :
              versions[n].version # v => versions[n] = task.versions[n]

\* C7: a rollback of a truly-in-prod target that does not hold latest
\* issues exactly one patch, on the target, and leaves the tag and the
\* properties of every other version as they were.
C7_RollbackOfNonLatestPatchesOnlyTarget ==
    \A t \in Slots :
        (/\ RollbackOf(t)
         /\ RecordOf(tasks[t].versions, tasks[t].target_version).tag # LATEST_TAG) =>
            /\ tasks[t].pc # "promote"
            /\ tasks[t].pc = "done" =>
                  /\ PatchCount(tasks[t]) = 1
                  /\ Patches(tasks[t].calls)[1].call.version = tasks[t].target_version
            /\ Settled(t) => OthersUnchanged(tasks[t], tasks[t].target_version)

C7_Witness ==
    \E t \in Slots :
        /\ RollbackOf(t)
        /\ RecordOf(tasks[t].versions, tasks[t].target_version).tag # LATEST_TAG
        /\ Settled(t)
        /\ PatchCount(tasks[t]) = 1
        /\ RecordOf(registry[tasks[t].app_key], tasks[t].target_version).tag
              = QuarantineTagOf(tasks[t].target_version)
        /\ LatestHolders(registry[tasks[t].app_key]) # {}

\* C8: a rollback of the latest holder when no other truly-in-prod version is
\* free of quarantine quarantines the target, promotes nothing, leaves no
\* truly-in-prod version tagged latest and ends normally.
C8_RollbackWithoutSuccessor ==
    \A t \in Slots :
        (/\ RollbackOf(t)
         /\ RecordOf(tasks[t].versions, tasks[t].target_version).tag = LATEST_TAG
         /\ Remaining(tasks[t]) = {}) =>
            /\ tasks[t].pc # "promote"
            /\ Settled(t) =>
                  /\ PatchCount(tasks[t]) = 1
                  /\ RecordOf(registry[tasks[t].app_key], tasks[t].target_version).tag
                        = QuarantineTagOf(tasks[t].target_version)
                  /\ LatestHolders(registry[tasks[t].app_key]) = {}

C8_Witness ==
    \E t \in Slots :
        /\ RollbackOf(t)
        /\ RecordOf(tasks[t].versions, tasks[t].target_version).tag = LATEST_TAG
        /\ Remaining(tasks[t]) = {}
        /\ Settled(t)
        /\ Len(tasks[t].prod_versions) = 2
        /\ LatestHolders(registry[tasks[t].app_key]) = {}

\* C9: a rollback whose target is not truly in prod in the snapshot issues
\* no patch and leaves the registry unchanged, and its event was answered
\* as accepted.
C9_RollbackOfMissingTarget ==
    \A t \in Slots :
        (/\ RollbackTask(t)
         /\ tasks[t].pc \notin {"idle", "list"}
         /\ ~TargetInProd(tasks[t])) =>
            /\ tasks[t].pc = "done"
            /\ PatchCount(tasks[t]) = 0
            /\ tasks[t].response = "accepted"
            /\ Settled(t) => registry[tasks[t].app_key] = tasks[t].versions

C9_Witness ==
    \E t \in Slots :
        /\ RollbackTask(t)
        /\ Settled(t)
        /\ ~TargetInProd(tasks[t])
        /\ \E n \in 1..Len(tasks[t].versions) :
              /\ tasks[t].versions[n].version = tasks[t].target_version
              /\ tasks[t].versions[n].current_stage = "PROD"
        /\ tasks[t].response = "accepted"

\* The truly-in-prod versions of the snapshot that carry a quarantine tag,
\* in the order of the list.
QuarantinedInProd(task) ==
    SelectIdx(task.versions,
              {n \in 1..Len(task.versions) :
                  TrulyInProd(task.versions[n]) /\ Quarantined(task.versions[n])},
              1)

\* First value of the backup-before-quarantine property, the version string
\* when the property is absent or empty.
RecoveredTag(r) ==
    IF /\ "original_tag_before_quarantine" \in DOMAIN r.properties
       /\ r.properties["original_tag_before_quarantine"] # <<>>
    THEN r.properties["original_tag_before_quarantine"][1]
    ELSE r.version

\* C10: an enforcement that reaches its election has first issued, for every
\* truly-in-prod version with a quarantine tag, a patch that sets the tag to
\* the first value of its backup-before-quarantine property (the version
\* string when there is none) and deletes that property, and the election
\* sees the version with the restored tag.
C10_RecoveryBeforeElection ==
    \A t \in Slots :
        (EnforceTask(t) /\ tasks[t].pc \in {"assign", "restore", "done"}) =>
            LET task == tasks[t]
                Q == QuarantinedInProd(task)
            IN  \A j \in 1..Len(Q) :
                    /\ Len(task.calls) >= 1 + j
                    /\ task.calls[1 + j] =
                          [call |-> PatchCall(Q[j].version, RecoveredTag(Q[j]),
                                              NoProperties,
                                              {"original_tag_before_quarantine"}),
                           ok |-> TRUE]
                    /\ RecordOf(task.prod_versions, Q[j].version).tag = RecoveredTag(Q[j])

C10_Witness ==
    \E t \in Slots :
        /\ EnforceTask(t)
        /\ tasks[t].pc = "done"
        /\ Len(QuarantinedInProd(tasks[t])) = 2
        /\ \E j \in 1..2 :
              RecoveredTag(QuarantinedInProd(tasks[t])[j])
                  # QuarantinedInProd(tasks[t])[j].version
        /\ PatchCount(tasks[t]) > 2

\* The patch calls of a task that the registry has applied.
PatchCalls(task) ==
    {task.calls[n].call :
        n \in {m \in 1..Len(task.calls) :
                  task.calls[m].call.op = "patch" /\ task.calls[m].ok}}

\* C11: the version a task gives the tag latest is never one whose tag, as
\* the task sees it at its election (after the recovery pass, for an
\* enforcement), begins with quarantine, and in a rollback it is never the
\* target.
C11_QuarantinedNeverElected ==
    \A t \in Slots :
        \A call \in PatchCalls(tasks[t]) :
            call.tag = LATEST_TAG =>
                /\ ~Quarantined(RecordOf(tasks[t].prod_versions, call.version))
                /\ RollbackTask(t) => call.version # tasks[t].target_version

C11_Witness ==
    \E t \in Slots :
        /\ EnforceTask(t)
        /\ tasks[t].pc = "done"
        /\ Len(QuarantinedInProd(tasks[t])) >= 1
        /\ \E call \in PatchCalls(tasks[t]) :
              /\ call.tag = LATEST_TAG
              /\ call.delete_properties = {}
              /\ \A j \in 1..Len(QuarantinedInProd(tasks[t])) :
                    QuarantinedInProd(tasks[t])[j].version # call.version

\* C12: a rollback that follows a completed rollback of the same truly-in-prod
\* version, with no registry change in between, leaves the registry as the
\* first one left it.
C12_RollbackRedeliveryIsSafe ==
    \A t \in Slots :
        (/\ RollbackTask(t)
         /\ Settled(t)
         /\ TargetInProd(tasks[t])
         /\ tasks[t].follows.func = "handle_rollback_tagging"
         /\ tasks[t].follows.app_key = tasks[t].app_key
         /\ tasks[t].follows.target_version = tasks[t].target_version) =>
            registry[tasks[t].app_key] = tasks[t].versions

\* C13: an enforcement that completes right after an invocation for the same
\* application that aborted, with no other registry change in between, leaves
\* exactly one eligible version tagged latest, the semver-maximum of the
\* eligible set, in whatever order the registry lists the versions.
C13_EnforceAfterAbortConverges ==
    \A t \in Slots :
        (/\ EnforceTask(t)
         /\ Settled(t)
         /\ tasks[t].follows.func # "none"
         /\ ~tasks[t].follows.ok
         /\ tasks[t].follows.app_key = tasks[t].app_key
         /\ ElectionSet(tasks[t]) # {}) =>
            LET versions == registry[tasks[t].app_key]
                holders == LatestHolders(versions) \cap Eligible(versions)
            IN  /\ Cardinality(holders) = 1
                /\ \A n \in holders :
                      IsSemverMaximum(versions[n].version,
                                      {versions[m].version : m \in Eligible(versions)})

\* The version list after the patches among calls[n..] that were applied.
RECURSIVE AppliedTo(_, _, _)
AppliedTo(versions, calls, n) ==
    IF n > Len(calls) THEN versions
    ELSE AppliedTo(IF calls[n].call.op = "patch" /\ calls[n].ok
                   THEN PatchedVersions(versions, calls[n].call)
                   ELSE versions,
                   calls, n + 1)

\* C14: a registry call of a task that fails is the last call the task
\* makes (no further call, no retry), and the registry keeps the patches the
\* task had applied before the failure.
C14_FailureAbortsInvocation ==
    \A t \in Slots :
        LET task == tasks[t]
        IN  /\ \A n \in 1..Len(task.calls) :
                  ~task.calls[n].ok => (n = Len(task.calls) /\ ~InProgress(t))
            /\ (/\ Len(task.calls) > 1
                /\ ~task.calls[Len(task.calls)].ok
                /\ last.slot = t) =>
                  registry[task.app_key] = AppliedTo(task.versions, task.calls, 1)

C14_Witness ==
    \E t \in Slots :
        /\ tasks[t].pc = "failed"
        /\ last.slot = t
        /\ Len(tasks[t].calls) = 3
        /\ tasks[t].calls[2].ok
        /\ ~tasks[t].calls[3].ok
        /\ registry[tasks[t].app_key] # tasks[t].versions

\* The tag the previous holder of latest is to get back: the first value of
\* its backup-before-latest property, its version string when that value is
\* absent, empty or latest.
TagBeforeLatest(r) ==
    IF /\ "original_tag_before_latest" \in DOMAIN r.properties
       /\ r.properties["original_tag_before_latest"] # <<>>
       /\ r.properties["original_tag_before_latest"][1]
             \notin {<<>>, <<"l", "a", "t", "e", "s", "t">>}
    THEN r.properties["original_tag_before_latest"][1]
    ELSE r.version

\* C15: when an enforcement promotes a version other than the current holder
\* of latest, the holder's tag is set to the first value of its
\* backup-before-latest property, or to its version string when that value is
\* absent, empty or latest, and the property is deleted.
C15_PreviousHolderRestored ==
    \A t \in Slots :
        (/\ EnforceTask(t)
         /\ tasks[t].pc = "done"
         /\ current_latest(tasks[t].prod_versions) # 0
         /\ \E call \in PatchCalls(tasks[t]) :
               /\ call.tag = LATEST_TAG
               /\ call.delete_properties = {}
               /\ call.version
                     # tasks[t].prod_versions[current_latest(tasks[t].prod_versions)].version) =>
            LET task == tasks[t]
                old == task.prod_versions[current_latest(task.prod_versions)]
            IN  PatchCall(old.version, TagBeforeLatest(old), NoProperties,
                          {"original_tag_before_latest"}) \in PatchCalls(task)

\* The backup property that goes with a tag given by a promotion or by a
\* quarantine.
BackupKeyOf(tag) ==
    IF tag = <<"l", "a", "t", "e", "s", "t">>
    THEN "original_tag_before_latest"
    ELSE "original_tag_before_quarantine"

\* C16: right after the patch that gives a version the tag latest (by an
\* enforcement or a rollback re-election) or a quarantine tag, the matching
\* backup property of the version holds exactly the tag the version held
\* before the patch, the empty tag included.
C16_BackupHoldsPreviousTag ==
    \A t \in Slots :
        LET task == tasks[t]
            n == Len(task.calls)
        IN  (/\ n > 1
             /\ task.calls[n].ok
             /\ task.calls[n].call.op = "patch"
             /\ task.calls[n].call.delete_properties = {}) =>
                LET call == task.calls[n].call
                    now == RecordOf(registry[task.app_key], call.version)
                    before == RecordOf(task.prod_versions, call.version)
                IN  /\ BackupKeyOf(call.tag) \in DOMAIN now.properties
                    /\ now.properties[BackupKeyOf(call.tag)] = <<before.tag>>

\* Enforcement t is past its recovery pass and follows a completed rollback
\* of a version that was truly in prod and not quarantined, with no registry
\* change in between.
RecoversRollback(t) ==
    LET prev == tasks[t].follows
    IN  /\ EnforceTask(t)
        /\ tasks[t].pc \in {"assign", "restore", "done"}
        /\ prev.func = "handle_rollback_tagging"
        /\ prev.ok
        /\ prev.app_key = tasks[t].app_key
        /\ \E n \in 1..Len(prev.versions) :
              /\ prev.versions[n].version = prev.target_version
              /\ TrulyInProd(prev.versions[n])
              /\ ~Quarantined(prev.versions[n])

DispatchedAsSpecified(t) ==
    LET task == tasks[t]
        e == task.event
    IN  IF e.event_type = "promoted" /\ e.to_stage = "PROD"
        THEN /\ task.response = "accepted"
             /\ task.func = "enforce_latest_tag_invariants"
             /\ task.app_key = e.app_key
        ELSE IF e.event_type = "rollback"
        THEN /\ task.response = "accepted"
             /\ task.func = "handle_rollback_tagging"
             /\ task.app_key = e.app_key
             /\ task.target_version = e.version
        ELSE IF e.event_type = "manual"
        THEN /\ task.response = "enforcement_scheduled"
             /\ task.func = "enforce_latest_tag_invariants"
             /\ task.app_key = e.app_key
        ELSE /\ task.response = "accepted"
             /\ task.func = "none"
             /\ task.calls = <<>>

\* C18 as stated: every inbound event is answered and dispatched as the
\* dispatch table says (promoted to PROD: one enforcement; rollback: one
\* quarantine of the event's version; manual trigger: one enforcement; any
\* other event: accepted, no work), whatever becomes of the background task.
C18_EveryEventDispatched ==
    \A t \in Slots : tasks[t].pc # "idle" => DispatchedAsSpecified(t)

\* C18, amended: when the registry base URL and token are configured, every
\* inbound event is answered and dispatched as the dispatch table says,
\* whatever becomes of the background task; when they are not, the request
\* is answered with an error and no work is scheduled.
C18_ConfiguredEventDispatched ==
    \A t \in Slots :
        tasks[t].pc # "idle" =>
            IF configured
            THEN DispatchedAsSpecified(t)
            ELSE /\ tasks[t].response = "error_500"
                 /\ tasks[t].func = "none"
                 /\ tasks[t].calls = <<>>

C18_Witness ==
    /\ configured
    /\ \E t, u \in Slots :
          /\ tasks[t].pc = "failed"
          /\ tasks[t].response = "accepted"
          /\ RollbackTask(t)
          /\ tasks[u].event.event_type = "promoted"
          /\ tasks[u].event.to_stage = "STAGING"
          /\ tasks[u].pc = "done"

\* C19: every patch a task has applied is on a version that is truly in prod
\* in the snapshot the task read, and while nothing else has changed the
\* registry it differs from that snapshot only in the tag and the properties
\* of such versions: no record is added or removed, and no version string,
\* stage or release status is changed.
C19_WritesOnlyTagAndPropertiesOfProd ==
    \A t \in Slots :
        tasks[t].pc \notin {"idle", "list"} /\ tasks[t].func # "none" =>
            LET task == tasks[t]
                now == registry[task.app_key]
            IN  /\ \A call \in PatchCalls(task) :
                      \E n \in 1..Len(task.versions) :
                          /\ task.versions[n].version = call.version
                          /\ TrulyInProd(task.versions[n])
                /\ (InProgress(t) \/ Settled(t)) =>
                      /\ Len(now) = Len(task.versions)
                      /\ \A n \in 1..Len(now) :
                            /\ now[n].version = task.versions[n].version
                            /\ now[n].current_stage = task.versions[n].current_stage
                            /\ now[n].release_status = task.versions[n].release_status
                            /\ now[n] # task.versions[n] => TrulyInProd(task.versions[n])

C19_Witness ==
    \E t \in Slots :
        /\ tasks[t].pc = "done"
        /\ PatchCount(tasks[t]) >= 2
        /\ \E n \in 1..Len(tasks[t].versions) :
              /\ ~TrulyInProd(tasks[t].versions[n])
              /\ tasks[t].versions[n].current_stage = "PROD"
              /\ Quarantined(tasks[t].versions[n])
              /\ registry[tasks[t].app_key][n] = tasks[t].versions[n]

\* Number of list calls a task has made.
ListCount(task) ==
    Cardinality({n \in 1..Len(task.calls) : task.calls[n].call.op = "list"})

\* C20 as stated: a completed invocation has made exactly one list call and
\* at most three patch calls.
C20_OneReadAtMostThreePatches ==
    \A t \in Slots :
        (tasks[t].pc = "done" /\ tasks[t].func # "none") =>
            /\ ListCount(tasks[t]) = 1
            /\ PatchCount(tasks[t]) <= 3

\* C20, amended: a completed invocation has made exactly one list call; a
\* rollback has made at most two patch calls, and an enforcement at most two
\* more than the number of truly-in-prod versions of its snapshot that carry
\* a quarantine tag.
C20_OneReadBoundedPatches ==
    \A t \in Slots :
        (tasks[t].pc = "done" /\ tasks[t].func # "none") =>
            /\ ListCount(tasks[t]) = 1
            /\ RollbackTask(t) => PatchCount(tasks[t]) <= 2
            /\ EnforceTask(t) =>
                  PatchCount(tasks[t]) <= Len(QuarantinedInProd(tasks[t])) + 2

C20_Witness ==
    \E t \in Slots :
        /\ EnforceTask(t)
        /\ tasks[t].pc = "done"
        /\ Len(QuarantinedInProd(tasks[t])) = 2
        /\ PatchCount(tasks[t]) = 4

\* C21: an enforcement whose eligible set, taken after its recovery pass, is
\* empty ends normally without having issued a patch.
C21_NoEligibleNoMutation ==
    \A t \in Slots :
        (/\ EnforceTask(t)
         /\ tasks[t].pc \in {"assign", "restore", "done"}
         /\ ElectionSet(tasks[t]) = {}) =>
            /\ tasks[t].pc = "done"
            /\ PatchCount(tasks[t]) = 0

\* C22: with one invocation per application, whatever the interleaving, the
\* versions of an application are those its own invocation read, changed by
\* that invocation's own patches and by nothing else.
C22_KeysAreIndependent ==
    \A t \in Slots :
        (tasks[t].pc \in {"clear", "assign", "restore", "quarantine", "promote", "done"}
         /\ tasks[t].func # "none") =>
            registry[tasks[t].app_key]
                = AppliedTo(tasks[t].versions, tasks[t].calls, 1)

C22_Witness ==
    \E t, u \in Slots :
        /\ tasks[t].app_key # tasks[u].app_key
        /\ tasks[t].pc = "done"
        /\ PatchCount(tasks[t]) = 2
        /\ tasks[u].pc = "promote"
        /\ \E call \in PatchCalls(tasks[t]) :
              \E n \in 1..Len(registry[tasks[u].app_key]) :
                  /\ registry[tasks[u].app_key][n].version = call.version
                  /\ registry[tasks[u].app_key][n].tag # call.tag

\* The valid ones among the strings at the positions of a list.
ValidOf(version_strings) ==
    {v \in {version_strings[n] : n \in 1..Len(version_strings)} : SemVerMatches(v)}

Occurrences(seq, x) == Cardinality({n \in 1..Len(seq) : seq[n] = x})

SortEvaluated ==
    evaluated.func \in {"tagging_service.sort_versions_by_semver_desc",
                        "main.sort_versions_by_semver_desc"}

ElectionEvaluated == evaluated.func \in {"desired_latest", "pick_next_latest"}

\* C23: strings that are not valid semver are left out of every ordering: the
\* sorted output of either sort holds each valid input as often as the input
\* does and no invalid one, and neither election returns an invalid version.
C23_InvalidExcludedFromOrdering ==
    /\ SortEvaluated =>
          \A v \in SortStrings :
              Occurrences(evaluated.result, v) =
                  IF SemVerMatches(v) THEN Occurrences(evaluated.args, v) ELSE 0
    /\ ElectionEvaluated => SemVerMatches(evaluated.result[1])

\* The numbers MAJOR, MINOR and PATCH of a plain version string.
PlainTriple(v) ==
    LET parts == Split(v, ".")
    IN  <<DigitsVal(parts[1]), DigitsVal(parts[2]), DigitsVal(parts[3])>>

\* a is numerically below b: major first, then minor, then patch.
NumericallyBelow(a, b) ==
    LET x == PlainTriple(a)
        y == PlainTriple(b)
    IN  \/ x[1] < y[1]
        \/ x[1] = y[1] /\ x[2] < y[2]
        \/ x[1] = y[1] /\ x[2] = y[2] /\ x[3] < y[3]

PlainSortEvaluated ==
    /\ evaluated.func = "tagging_service.sort_versions_by_semver_desc"
    /\ \A n \in 1..Len(evaluated.args) : evaluated.args[n] \in PlainStrings

\* C24: for a list of plain MAJOR.MINOR.PATCH strings the sort of the tagging
\* service returns a permutation of the input in which no element is
\* numerically below a later one, so its first element is the highest.
C24_PlainSortIsNumericDescending ==
    PlainSortEvaluated =>
        /\ Len(evaluated.result) = Len(evaluated.args)
        /\ \A v \in PlainStrings :
              Occurrences(evaluated.result, v) = Occurrences(evaluated.args, v)
        /\ \A i, j \in 1..Len(evaluated.result) :
              i < j => ~NumericallyBelow(evaluated.result[i], evaluated.result[j])

\* 1.2.10 is ranked above 1.2.9, and 2.0.0 above both.
C24_Witness ==
    /\ PlainSortEvaluated
    /\ evaluated.args = <<V129, V1210, V200>>
    /\ evaluated.result = <<V200, V1210, V129>>

\* Identifier x is below identifier y: both numeric, as integers; a numeric one
\* below a non-numeric one; otherwise in ASCII order.
IdentifierBelow(x, y) ==
    IF StrIsDigit(x) /\ StrIsDigit(y) THEN DigitsVal(x) < DigitsVal(y)
    ELSE IF StrIsDigit(x) # StrIsDigit(y) THEN StrIsDigit(x)
    ELSE StrLess(x, y)

\* Prerelease identifier list p is below q: the first differing pair decides,
\* and a proper prefix is below the longer list.
PrereleaseBelow(p, q) ==
    LET differing == {i \in 1..Min(Len(p), Len(q)) : p[i] # q[i]}
    IN  IF differing = {} THEN Len(p) < Len(q)
        ELSE LET i == CHOOSE k \in differing : \A m \in differing : k <= m
             IN  IdentifierBelow(p[i], q[i])

\* The stated precedence: a is below b.
PrecedenceBelow(a, b) ==
    IF a.major # b.major THEN a.major < b.major
    ELSE IF a.minor # b.minor THEN a.minor < b.minor
    ELSE IF a.patch # b.patch THEN a.patch < b.patch
    ELSE IF Len(a.prerelease) = 0 \/ Len(b.prerelease) = 0
         THEN Len(a.prerelease) # 0 /\ Len(b.prerelease) = 0
    ELSE PrereleaseBelow(a.prerelease, b.prerelease)

CompareEvaluated == evaluated.func = "compare_semver"

\* C25: compare_semver is a consistent total order that implements the stated
\* precedence: compare(a, b) = -compare(b, a), the order is transitive, and
\* the result is -1, 1 or 0 as a is below b, b below a, or neither.
C25_CompareIsTheStatedTotalOrder ==
    CompareEvaluated =>
        LET a == SemVerParse(evaluated.args[1])
            b == SemVerParse(evaluated.args[2])
            c == SemVerParse(evaluated.args[3])
        IN  /\ evaluated.result[1] = compare_semver(a, b)
            /\ evaluated.result[1] =
                  IF PrecedenceBelow(a, b) THEN -1
                  ELSE IF PrecedenceBelow(b, a) THEN 1 ELSE 0
            /\ compare_semver(a, b) = 0 - compare_semver(b, a)
            /\ compare_semver(a, a) = 0
            /\ compare_semver(a, b) <= 0 /\ compare_semver(b, c) <= 0
                  => /\ compare_semver(a, c) <= 0
                     /\ compare_semver(a, c) = 0
                          => compare_semver(a, b) = 0 /\ compare_semver(b, c) = 0

\* A numeric identifier below a non-numeric one, and a prefix below the
\* longer list: 2.0.0-7 < 2.0.0-rc < 2.0.0-rc.1.
C25_Witness ==
    /\ CompareEvaluated
    /\ evaluated.args = <<V200Pre7, V200RC, V200RC1>>
    /\ evaluated.result = <<-1>>
    /\ compare_semver(SemVerParse(V200RC), SemVerParse(V200RC1)) = -1
    /\ compare_semver(SemVerParse(V200RC1), SemVerParse(V200)) = -1

\* What task saw of version v when it made its k-th call: its snapshot with
\* the patches it had applied itself, whatever the registry held by then.
OwnView(task, k, v) ==
    LET versions == AppliedTo(task.versions, SubSeq(task.calls, 1, k - 1), 1)
    IN  versions[CHOOSE n \in 1..Len(versions) : versions[n].version = v]

\* The calls of backup_tag_then_patch among the calls of a task.
BackupPatches(task) ==
    {k \in 1..Len(task.calls) :
        /\ task.calls[k].call.op = "patch"
        /\ task.calls[k].call.delete_properties = {}}

\* C26 (each invocation acts on its own earlier snapshot): the tag a promotion
\* or a quarantine backs up is the tag the version had in the snapshot of the
\* invocation, not the tag the registry holds when the patch is made, also
\* while another invocation for the same key is writing.
C26_InvocationsActOnTheirSnapshot ==
    \A t \in Slots :
        \A k \in BackupPatches(tasks[t]) :
            LET call == tasks[t].calls[k].call
                seen == OwnView(tasks[t], k, call.version).tag
            IN  call.properties =
                    IF seen # EmptyTag
                    THEN OneProperty(BackupKeyOf(call.tag), <<seen>>)
                    ELSE NoProperties

\* A quiescent state after two interleaved rollbacks of one application that
\* both listed the same registry, which satisfied the invariant: the tag
\* quarantine-<v> written by one has been overwritten with latest by the
\* re-election of the other, which no longer saw it.
C26_Witness ==
    /\ NoneInProgress
    /\ externals = 0
    /\ \E t, u \in Slots :
          /\ t # u
          /\ tasks[t].pc = "done" /\ tasks[u].pc = "done"
          /\ RollbackTask(t) /\ RollbackTask(u)
          /\ tasks[t].app_key = tasks[u].app_key
          /\ tasks[t].versions = tasks[u].versions
          /\ InvariantHolds(tasks[t].versions)
          /\ \E n \in 1..Len(registry[tasks[t].app_key]) :
                LET r == registry[tasks[t].app_key][n]
                IN  /\ r.version = tasks[u].target_version
                    /\ \E c \in PatchCalls(tasks[u]) :
                          c.version = r.version /\ c.tag = QuarantineTagOf(r.version)
                    /\ \E c \in PatchCalls(tasks[t]) :
                          c.version = r.version /\ c.tag = LATEST_TAG
                    /\ r.tag = LATEST_TAG
                    /\ BACKUP_BEFORE_QUARANTINE \in DOMAIN r.properties

ReelectionEvaluated == evaluated.func = "handle_rollback_tagging"

\* C27: when the holder of latest is rolled back, the successor the rollback
\* promotes is the version the enforcement computes as desired on the same
\* snapshot without the target: none when no version there is eligible,
\* desired_latest otherwise.
C27_ReelectionAgreesWithEnforcement ==
    ReelectionEvaluated =>
        LET remaining == Tail(evaluated.args)
        IN  evaluated.result =
                IF Len(eligible_for_latest(remaining)) = 0 THEN <<>>
                ELSE <<desired_latest(remaining)>>

\* Task t is an enforcement that listed the registry as the completed rollback
\* of a truly-in-prod version of the same application had left it.
EnforcesAfterQuarantine(t) ==
    /\ EnforceTask(t)
    /\ tasks[t].pc \notin {"idle", "list"}
    /\ tasks[t].follows.func = "handle_rollback_tagging"
    /\ tasks[t].follows.ok
    /\ tasks[t].follows.app_key = tasks[t].app_key
    /\ \E n \in 1..Len(tasks[t].follows.versions) :
          /\ tasks[t].follows.versions[n].version = tasks[t].follows.target_version
          /\ TrulyInProd(tasks[t].follows.versions[n])

\* C28: an enforcement that runs after the quarantine of v has completed,
\* the record of v not having changed since, issues no patch for v: v keeps
\* the tag quarantine-<v> and is not tagged latest.
C28_QuarantineSurvivesEnforcement ==
    \A t \in Slots :
        EnforcesAfterQuarantine(t) =>
            LET v == tasks[t].follows.target_version
            IN  /\ \A c \in PatchCalls(tasks[t]) : c.version # v
                /\ Settled(t) =>
                      \A n \in 1..Len(registry[tasks[t].app_key]) :
                          registry[tasks[t].app_key][n].version = v =>
                              registry[tasks[t].app_key][n].tag = QuarantineTagOf(v)

\* Record r carries no backup that has outlived the tag it belongs to, and
\* no backup of a tag of the same kind.
NoStaleBackup(r) ==
    /\ BACKUP_BEFORE_LATEST \in DOMAIN r.properties =>
          /\ r.tag = LATEST_TAG
          /\ r.properties[BACKUP_BEFORE_LATEST] # <<LATEST_TAG>>
    /\ BACKUP_BEFORE_QUARANTINE \in DOMAIN r.properties =>
          /\ StartsWith(r.tag, QUARANTINE_TAG)
          /\ \A n \in 1..Len(r.properties[BACKUP_BEFORE_QUARANTINE]) :
                ~StartsWith(r.properties[BACKUP_BEFORE_QUARANTINE][n], QUARANTINE_TAG)

\* C29: from a registry without backup properties, whenever the invocations
\* run so far (serialized, failure-free) have all completed, a version has
\* original_tag_before_latest only under the tag latest and
\* original_tag_before_quarantine only under a quarantine tag, and neither
\* backup holds a tag of its own kind.
C29_NoStaleBackups ==
    NoneInProgress =>
        \A a \in AppKeys : \A n \in 1..Len(registry[a]) : NoStaleBackup(registry[a][n])

\* The enforcement in slot t listed a registry in which a truly-in-prod
\* version held latest, and the registry is as the task has left it so far.
StartedWithLatest(t) ==
    /\ EnforceTask(t)
    /\ tasks[t].pc \notin {"idle", "list"}
    /\ LatestHolders(tasks[t].versions) # {}
    /\ InProgress(t) \/ last.slot = t

\* The positions among the calls of a task of the applied patches that give
\* the tag latest with a backup, and of the patches that restore a holder.
PromotionsOf(task) ==
    {k \in 1..Len(task.calls) :
        /\ task.calls[k].call.op = "patch"
        /\ task.calls[k].ok
        /\ task.calls[k].call.tag = LATEST_TAG
        /\ task.calls[k].call.delete_properties = {}}

RestoresOf(task) ==
    {k \in 1..Len(task.calls) :
        /\ task.calls[k].call.op = "patch"
        /\ task.calls[k].call.delete_properties = {BACKUP_BEFORE_LATEST}}

\* C30: an enforcement issues the patch that restores the previous holder
\* only after the patch that tags the desired version latest has been
\* applied, and if it started with a truly-in-prod holder of latest, then in
\* every state it passes through or aborts in, some truly-in-prod version is
\* tagged latest.
C30_PromoteBeforeDemote ==
    \A t \in Slots :
        /\ EnforceTask(t) =>
              \A k \in RestoresOf(tasks[t]) :
                  \E j \in PromotionsOf(tasks[t]) : j < k
        /\ StartedWithLatest(t) => LatestHolders(registry[tasks[t].app_key]) # {}

\* An enforcement that started with a holder has promoted the desired
\* version and aborted at the restore: two versions hold latest, not none.
C30_Witness ==
    \E t \in Slots :
        /\ StartedWithLatest(t)
        /\ tasks[t].pc = "failed"
        /\ PromotionsOf(tasks[t]) # {}
        /\ \E k \in RestoresOf(tasks[t]) : ~tasks[t].calls[k].ok
        /\ Cardinality(LatestHolders(registry[tasks[t].app_key])) = 2

====
